---------------------------- MODULE Spec2Model ----------------------------
(***************************************************************************)
(* A model of dysl.h: the allocator capability, the intrusive object       *)
(* tracking lists of the garbage collector, the symbol table and the       *)
(* construction and destruction of the interpreter context.                *)
(*                                                                         *)
(* Pointers are modelled as identities: a symbol is its index in the       *)
(* sequence of symbol objects, a tracked object is a positive integer, a   *)
(* `struct dy_symbol**` slot is either a cell of the bucket array or the   *)
(* next_in_table field of a symbol.  NULL is 0.                            *)
(*                                                                         *)
(* dy_hash_t is a 32-bit unsigned integer.  It is kept as a pair           *)
(* <<high 16 bits, low 16 bits>> so that every intermediate value of the   *)
(* wrapping arithmetic stays below 2^31.                                   *)
(***************************************************************************)
EXTENDS Integers, Sequences, FiniteSets, TLC

VARIABLES
    symbols,    \* struct dy_symbols: [buckets, count, capacity]
    symbol,     \* the dy_symbol objects, by identity: [name, length, hash, next_in_table]
    history,    \* history variable: the pairs <<name, symbol>> such that an intern
                \* of the name has returned the symbol
    refused,    \* history variable: a request for a bucket array has returned NULL
    links,      \* the previous and next fields of the two sentinels of struct dy_gc
                \* and of every tracked object
    tag,        \* the tag field of every tracked object
    pinned,     \* history variable: the objects pinned by dGC_root and not unpinned
    heap,       \* the blocks the context holds from the allocator for itself, by
                \* kind: the struct dysl, the struct dy_global, the bucket array
    life,       \* "unborn" before dysl_new; "absent" once dysl_new has returned NULL;
                \* "live" once it has returned the context; "destroyed" once
                \* dysl_destroy has returned; "crashed" once the process has died
    fault,      \* history variable: the undefined behaviour executed so far
    arena,      \* the blocks of the C library's heap that are allocated: their sizes,
                \* by address
    call,       \* the dSymbols_ensure_capacity call that is running, when its loops
                \* are taken one iteration at a time: [pc, new_capacity,
                \* desired_count, turn (the parity of the iterations made)]
    op          \* the last operation: [name, capacity (the capacity before it),
                \* alloc (its request for a block: "none", "granted", "refused")]

symvars == <<symbols, symbol, history, refused>>
gcvars == <<links, tag, pinned>>
lifevars == <<heap, life, fault>>
vars == <<symbols, symbol, history, refused, links, tag, pinned, heap, life, fault, arena,
          call, op>>

NULL == 0
\* &gc->root and &gc->gen; tracked objects are 1, 2, ...
ROOT == -1
GEN == -2

(***************************************************************************)
(* Bounds of the model.                                                    *)
(***************************************************************************)
\* the largest number of distinct symbols interned in the symbol-table workload
MaxSymbols == 3
\* the largest desired_count handed to dSymbols_ensure_capacity directly
MaxDesired == 3

(***************************************************************************)
(* Program constants.                                                      *)
(***************************************************************************)
DYSL_SYMBOLS_INITIAL_CAPACITY == 64
\* DYSL_SYMBOLS_LOAD_FACTOR is 0.75 = LOAD_NUM / LOAD_DEN
LOAD_NUM == 3
LOAD_DEN == 4
\* the FNV-1a offset basis 2166136261 = 0x811C9DC5 and prime 16777619 = 0x01000193,
\* as 16-bit halves
FNV_OFFSET_HI == 33052
FNV_OFFSET_LO == 40389
FNV_PRIME_HI == 256
FNV_PRIME_LO == 403
LIMB == 65536

(***************************************************************************)
(* Byte sequences used as names: "", "foo", "bar", "gwzx" and "16cd".      *)
(* FNV-1a maps "gwzx" and "16cd" to the same hash, 0x6B3E8B99.             *)
(***************************************************************************)
Empty == <<>>
Foo == <<102, 111, 111>>
Bar == <<98, 97, 114>>
Gwzx == <<103, 119, 122, 120>>
N16cd == <<49, 54, 99, 100>>

Names == {Empty, Foo, Bar, Gwzx, N16cd}

(***************************************************************************)
(* dHash_fnv1a                                                             *)
(***************************************************************************)
RECURSIVE XorBits(_, _, _)
\* bitwise exclusive or of a and b over their n low bits
XorBits(a, b, n) ==
    IF n = 0 THEN 0
    ELSE ((a + b) % 2) + 2 * XorBits(a \div 2, b \div 2, n - 1)

\* hash ^= data[i]: the byte only touches the low 8 bits
HashXor(h, byte) ==
    <<h[1], (h[2] \div 256) * 256 + XorBits(h[2] % 256, byte, 8)>>

\* hash *= 16777619u, wrapping at 2^32
HashMul(h) ==
    LET lowprod == h[2] * FNV_PRIME_LO
        high == h[1] * FNV_PRIME_LO + h[2] * FNV_PRIME_HI + (lowprod \div LIMB)
    IN  <<high % LIMB, lowprod % LIMB>>

RECURSIVE FnvLoop(_, _, _)
FnvLoop(hash, data, i) ==
    IF i > Len(data) THEN hash
    ELSE FnvLoop(HashMul(HashXor(hash, data[i])), data, i + 1)

dHash_fnv1a(key) == FnvLoop(<<FNV_OFFSET_HI, FNV_OFFSET_LO>>, key, 1)

\* hash % capacity, for a hash kept in two halves
HashMod(h, capacity) ==
    ((h[1] % capacity) * (LIMB % capacity) + (h[2] % capacity)) % capacity

(***************************************************************************)
(* dSlice_equals                                                           *)
(***************************************************************************)
RECURSIVE SliceLoop(_, _, _, _)
SliceLoop(a, b, i, n) ==
    IF i > n THEN TRUE
    ELSE IF a[i] # b[i] THEN FALSE
    ELSE SliceLoop(a, b, i + 1, n)

dSlice_equals(a, a_length, b, b_length) ==
    IF a_length # b_length THEN FALSE ELSE SliceLoop(a, b, 1, a_length)

(***************************************************************************)
(* dAlloc_alloc: the allocator returns NULL for a request of zero bytes    *)
(* and may fail any other request.  `granted` is the allocator's decision  *)
(* for a non-empty request; the result says whether a block was obtained.  *)
(***************************************************************************)
dAlloc_alloc(size, granted) == size > 0 /\ granted

(***************************************************************************)
(* dysl_stdlib_allocator_fn.  A is the C library's heap: the sizes of the  *)
(* allocated blocks by address.  out is what the library function called   *)
(* returns: NULL when it fails, else the address of the block.             *)
(***************************************************************************)
\* the blocks of A other than ptr
Without(A, ptr) == [q \in DOMAIN A \ {ptr} |-> A[q]]

\* malloc(ns)
malloc(A, ns, out) ==
    IF out = NULL THEN [arena |-> A, ret |-> NULL]
    ELSE [arena |-> out :> ns @@ A, ret |-> out]

\* free(ptr)
free(A, ptr) == Without(A, ptr)

\* realloc(ptr, ns): on failure the block stays as it is
realloc(A, ptr, ns, out) ==
    IF out = NULL THEN [arena |-> A, ret |-> NULL]
    ELSE [arena |-> out :> ns @@ Without(A, ptr), ret |-> out]

\* a variant that hands every call without a block to malloc
dysl_stdlib_allocator_fn_AlwaysMalloc(A, ptr, ns, out) ==
    IF ptr = NULL THEN malloc(A, ns, out)
    ELSE IF ns = 0 THEN [arena |-> free(A, ptr), ret |-> NULL]
    ELSE realloc(A, ptr, ns, out)

dysl_stdlib_allocator_fn(A, ptr, ns, out) ==
    IF ptr = NULL /\ ns > 0 THEN malloc(A, ns, out)
    ELSE IF ptr # NULL /\ ns = 0 THEN [arena |-> free(A, ptr), ret |-> NULL]
    ELSE IF ptr # NULL /\ ns > 0 THEN realloc(A, ptr, ns, out)
    ELSE [arena |-> A, ret |-> NULL]

(***************************************************************************)
(* Slots: values of type `struct dy_symbol**`.                             *)
(***************************************************************************)
BucketSlot(index) == [kind |-> "bucket", at |-> index]
NextSlot(sym) == [kind |-> "next_in_table", at |-> sym]

\* *slot
Deref(S, M, slot) ==
    IF slot.kind = "bucket" THEN S.buckets[slot.at] ELSE M[slot.at].next_in_table

(***************************************************************************)
(* dSymbols_init                                                           *)
(***************************************************************************)
\* symbols->buckets = NULL: an array without cells
NoBuckets == [i \in {} |-> NULL]

\* granted: whether the allocator grants the bucket array
dSymbols_init(initial_capacity, granted) ==
    [count |-> 0,
     capacity |-> initial_capacity,
     buckets |-> IF dAlloc_alloc(initial_capacity, granted)
                 THEN [i \in 0 .. initial_capacity - 1 |-> NULL]
                 ELSE NoBuckets]

\* the for loop stores through symbols->buckets whatever the allocator returned:
\* the undefined behaviour dSymbols_init executes
dSymbols_init_fault(initial_capacity, granted) ==
    IF ~dAlloc_alloc(initial_capacity, granted) /\ initial_capacity > 0
    THEN {"store through NULL"}
    ELSE {}

(***************************************************************************)
(* dSymbols_destroy                                                        *)
(***************************************************************************)
dSymbols_destroy(S) == [S EXCEPT !.buckets = NoBuckets, !.count = 0, !.capacity = 0]

(***************************************************************************)
(* dSymbols_lookup                                                         *)
(***************************************************************************)
\* a variant that trusts the hash alone
SymbolMatches_HashOnly(sym, name, length, hash) == sym.hash = hash

\* the condition of the if statement in the loop
SymbolMatches(sym, name, length, hash) ==
    /\ sym.hash = hash
    /\ sym.length = length
    /\ dSlice_equals(sym.name, sym.length, name, length)

RECURSIVE LookupLoop(_, _, _, _, _, _)
LookupLoop(S, M, slot, name, length, hash) ==
    LET sym == Deref(S, M, slot)
    IN  IF sym = NULL THEN [slot |-> slot, found |-> FALSE]
        ELSE IF SymbolMatches(M[sym], name, length, hash)
             THEN [slot |-> slot, found |-> TRUE]
        ELSE LookupLoop(S, M, NextSlot(sym), name, length, hash)

dSymbols_lookup(S, M, name, length, hash) ==
    LookupLoop(S, M, BucketSlot(HashMod(hash, S.capacity)), name, length, hash)

(***************************************************************************)
(* dSymbols_resize                                                         *)
(***************************************************************************)
\* a variant that does not chain a moved symbol to the symbols already in its
\* new bucket
RECURSIVE RehashChain_Unchained(_, _, _, _)
RehashChain_Unchained(new_buckets, M, sym, new_capacity) ==
    IF sym = NULL THEN [buckets |-> new_buckets, M |-> M]
    ELSE LET next_sym == M[sym].next_in_table
             new_index == HashMod(M[sym].hash, new_capacity)
         IN  RehashChain_Unchained([new_buckets EXCEPT ![new_index] = sym],
                                   [M EXCEPT ![sym].next_in_table = NULL],
                                   next_sym, new_capacity)

\* the while loop: moves the chain starting at sym to the front of its new buckets
RECURSIVE RehashChain(_, _, _, _)
RehashChain(new_buckets, M, sym, new_capacity) ==
    IF sym = NULL THEN [buckets |-> new_buckets, M |-> M]
    ELSE LET next_sym == M[sym].next_in_table
             new_index == HashMod(M[sym].hash, new_capacity)
         IN  RehashChain([new_buckets EXCEPT ![new_index] = sym],
                         [M EXCEPT ![sym].next_in_table = new_buckets[new_index]],
                         next_sym, new_capacity)

\* the for loop, from the old bucket acc.i up to the old bucket hi in ascending
\* order of the index: acc holds the loop variable i, new_buckets and the
\* symbols.  One iteration moves the chain of bucket i; a longer run of
\* iterations is its first half followed, on what that half left, by the rest.
RECURSIVE RehashBuckets(_, _, _, _)
RehashBuckets(S, acc, hi, new_capacity) ==
    IF acc.i > hi THEN acc
    ELSE IF acc.i = hi
    THEN LET r == RehashChain(acc.buckets, acc.M, S.buckets[acc.i], new_capacity)
         IN  [buckets |-> r.buckets, M |-> r.M, i |-> acc.i + 1]
    ELSE RehashBuckets(S, RehashBuckets(S, acc, (acc.i + hi) \div 2, new_capacity),
                       hi, new_capacity)

\* a variant that gives up the old array when the new one is refused
dSymbols_resize_Releasing(S, M, new_capacity, granted) ==
    [S |-> [S EXCEPT !.buckets = [k \in DOMAIN S.buckets |-> NULL]],
     M |-> M,
     alloc |-> IF dAlloc_alloc(new_capacity, granted) THEN "granted" ELSE "refused"]

\* granted: whether the allocator grants the new bucket array.
\* The result holds the table, the symbols and what became of the request for the
\* new array; the old array is released exactly when the request is granted.
dSymbols_resize(S, M, new_capacity, granted) ==
    IF ~dAlloc_alloc(new_capacity, granted)
    THEN [S |-> S, M |-> M, alloc |-> "refused"]
    ELSE LET r == RehashBuckets(S, [buckets |-> [k \in 0 .. new_capacity - 1 |-> NULL],
                                    M |-> M, i |-> 0],
                                S.capacity - 1, new_capacity)
         IN  [S |-> [S EXCEPT !.buckets = r.buckets, !.capacity = new_capacity],
              M |-> r.M,
              alloc |-> "granted"]

(***************************************************************************)
(* dSymbols_should_grow, dSymbols_ensure_capacity                          *)
(***************************************************************************)
\* (size_t)(capacity * DYSL_SYMBOLS_LOAD_FACTOR)
GrowThreshold(capacity) == (capacity * LOAD_NUM) \div LOAD_DEN

\* a variant that lets the table fill up before it grows
dSymbols_should_grow_Full(S, desired_count) == desired_count > S.capacity

dSymbols_should_grow(S, desired_count) == desired_count > GrowThreshold(S.capacity)

\* while (new_capacity * DYSL_SYMBOLS_LOAD_FACTOR < desired_count) new_capacity *= 2
RECURSIVE GrowLoop(_, _)
GrowLoop(new_capacity, desired_count) ==
    IF new_capacity * LOAD_NUM < desired_count * LOAD_DEN
    THEN GrowLoop(new_capacity * 2, desired_count)
    ELSE new_capacity

\* while (new_capacity > INITIAL_CAPACITY && desired_count < new_capacity / 4) new_capacity /= 2
RECURSIVE ShrinkLoop(_, _)
ShrinkLoop(new_capacity, desired_count) ==
    IF new_capacity > DYSL_SYMBOLS_INITIAL_CAPACITY /\ desired_count < new_capacity \div 4
    THEN ShrinkLoop(new_capacity \div 2, desired_count)
    ELSE new_capacity

dU_max(a, b) == IF a > b THEN a ELSE b

\* the capacity dSymbols_ensure_capacity hands to dSymbols_resize
NewCapacity(capacity, desired_count) ==
    IF desired_count > GrowThreshold(capacity)
    THEN GrowLoop(capacity, desired_count)
    ELSE IF desired_count < capacity \div 4 /\ capacity > DYSL_SYMBOLS_INITIAL_CAPACITY
    THEN ShrinkLoop(dU_max(capacity \div 2, DYSL_SYMBOLS_INITIAL_CAPACITY), desired_count)
    ELSE capacity

dSymbols_ensure_capacity(S, M, desired_count, granted) ==
    dSymbols_resize(S, M, NewCapacity(S.capacity, desired_count), granted)

(***************************************************************************)
(* dSymbols_intern                                                         *)
(***************************************************************************)
\* a variant that counts the name before looking whether it is there
dSymbols_intern_CountsFound(S, M, name, length, hash, granted) ==
    LET first == dSymbols_lookup(S, M, name, length, hash)
        new_count == S.count + 1
        grown == dSymbols_ensure_capacity(S, M, new_count, granted)
    IN  IF first.found
        THEN [S |-> [S EXCEPT !.count = new_count], M |-> M, slot |-> first.slot,
              found |-> TRUE, alloc |-> "none"]
        ELSE IF dSymbols_should_grow(S, new_count)
        THEN [S |-> [grown.S EXCEPT !.count = new_count],
              M |-> grown.M,
              slot |-> dSymbols_lookup(grown.S, grown.M, name, length, hash).slot,
              found |-> FALSE,
              alloc |-> grown.alloc]
        ELSE [S |-> [S EXCEPT !.count = new_count],
              M |-> M,
              slot |-> first.slot,
              found |-> FALSE,
              alloc |-> "none"]

\* a variant that returns the slot of the first lookup after a growth
dSymbols_intern_StaleSlot(S, M, name, length, hash, granted) ==
    LET first == dSymbols_lookup(S, M, name, length, hash)
        new_count == S.count + 1
        grown == dSymbols_ensure_capacity(S, M, new_count, granted)
    IN  IF first.found
        THEN [S |-> S, M |-> M, slot |-> first.slot, found |-> TRUE,
              alloc |-> "none"]
        ELSE IF dSymbols_should_grow(S, new_count)
        THEN [S |-> [grown.S EXCEPT !.count = new_count],
              M |-> grown.M,
              slot |-> first.slot,
              found |-> FALSE,
              alloc |-> grown.alloc]
        ELSE [S |-> [S EXCEPT !.count = new_count],
              M |-> M,
              slot |-> first.slot,
              found |-> FALSE,
              alloc |-> "none"]

\* The result holds the table, the symbols, the returned slot, whether the
\* name was found by the first lookup and what became of its request for a bucket
\* array, if it made one.
dSymbols_intern(S, M, name, length, hash, granted) ==
    LET first == dSymbols_lookup(S, M, name, length, hash)
        new_count == S.count + 1
        grown == dSymbols_ensure_capacity(S, M, new_count, granted)
    IN  IF first.found
        THEN [S |-> S, M |-> M, slot |-> first.slot, found |-> TRUE,
              alloc |-> "none"]
        ELSE IF dSymbols_should_grow(S, new_count)
        THEN [S |-> [grown.S EXCEPT !.count = new_count],
              M |-> grown.M,
              slot |-> dSymbols_lookup(grown.S, grown.M, name, length, hash).slot,
              found |-> FALSE,
              alloc |-> grown.alloc]
        ELSE [S |-> [S EXCEPT !.count = new_count],
              M |-> M,
              slot |-> first.slot,
              found |-> FALSE,
              alloc |-> "none"]

(***************************************************************************)
(* The caller's part of interning: a fresh symbol is written into the      *)
(* returned slot when that slot is empty.                                  *)
(***************************************************************************)
NewSymbol(name, length, hash) ==
    [name |-> name, length |-> length, hash |-> hash, next_in_table |-> NULL]

\* *slot = sym
StoreSlot(S, M, slot, sym) ==
    IF slot.kind = "bucket"
    THEN [S |-> [S EXCEPT !.buckets[slot.at] = sym], M |-> M]
    ELSE [S |-> S, M |-> [M EXCEPT ![slot.at].next_in_table = sym]]

\* the whole intern operation; the result holds the table, the symbols and the
\* symbol the slot holds in the end
InternSymbol(S, M, name, granted) ==
    LET hash == dHash_fnv1a(name)
        r == dSymbols_intern(S, M, name, Len(name), hash, granted)
        fresh == Len(r.M) + 1
        placed == StoreSlot(r.S, Append(r.M, NewSymbol(name, Len(name), hash)),
                            r.slot, fresh)
    IN  IF Deref(r.S, r.M, r.slot) # NULL
        THEN [S |-> r.S, M |-> r.M, sym |-> Deref(r.S, r.M, r.slot), alloc |-> r.alloc]
        ELSE [S |-> placed.S, M |-> placed.M, sym |-> fresh, alloc |-> r.alloc]

(***************************************************************************)
(* The object linked list: dObj_close, dObj_unlink, dObj_link.  L holds    *)
(* the previous and next fields of every node; the assignments are applied *)
(* one after another, in the order of the source.                          *)
(***************************************************************************)
dObj_close(L, obj) == [L EXCEPT ![obj] = [previous |-> obj, next |-> obj]]

\* a variant that sets obj->next to the list head
dObj_link_DropsRest(L, obj, list) ==
    LET L1 == [L EXCEPT ![obj].next = list]
        L2 == [L1 EXCEPT ![obj].previous = list]
        L3 == [L2 EXCEPT ![L2[list].next].previous = obj]
    IN  [L3 EXCEPT ![list].next = obj]

\* a variant that leaves obj->previous->next as it is
dObj_unlink_OneSided(L, obj) ==
    LET L2 == [L EXCEPT ![L[obj].next].previous = L[obj].previous]
    IN  dObj_close(L2, obj)

dObj_unlink(L, obj) ==
    LET L1 == [L EXCEPT ![L[obj].previous].next = L[obj].next]
        L2 == [L1 EXCEPT ![L1[obj].next].previous = L1[obj].previous]
    IN  dObj_close(L2, obj)

dObj_link(L, obj, list) ==
    LET L1 == [L EXCEPT ![obj].next = L[list].next]
        L2 == [L1 EXCEPT ![obj].previous = list]
        L3 == [L2 EXCEPT ![L2[list].next].previous = obj]
    IN  [L3 EXCEPT ![list].next = obj]

(***************************************************************************)
(* The garbage collector: dGC_init, dGC_track, dGC_root, dGC_unroot,       *)
(* dGC_create.                                                             *)
(***************************************************************************)
dGC_init == dObj_close(dObj_close([n \in {ROOT, GEN} |-> NULL], ROOT), GEN)

\* a variant that links the new object under the root sentinel
dGC_track_Root(L, obj) == dObj_link(L, obj, ROOT)

dGC_track(L, obj) == dObj_link(L, obj, GEN)

dGC_root(L, obj) == dObj_link(L, obj, ROOT)

dGC_unroot(L, obj) == dObj_unlink(L, obj)

\* The block the allocator returns: its fields hold whatever the memory held.
\* dGC_create reads none of them before dObj_link has written both links.
FreshBlock(L, obj) == obj :> [previous |-> NULL, next |-> NULL] @@ L

\* a variant that does not test the allocator's result
dGC_create_Unchecked(L, T, obj, t) ==
    [links |-> dGC_track(FreshBlock(L, obj), obj), tag |-> obj :> t @@ T, obj |-> obj]

\* obj is the allocator's result (NULL when the request is refused), t the tag.
\* The result holds the links, the tags and the returned pointer.
dGC_create(L, T, obj, t) ==
    IF obj = NULL
    THEN [links |-> L, tag |-> T, obj |-> NULL]
    ELSE [links |-> dGC_track(FreshBlock(L, obj), obj), tag |-> obj :> t @@ T, obj |-> obj]

(***************************************************************************)
(* The context: dGlobal_init, dysl_new, dysl_destroy.                      *)
(***************************************************************************)
NoBlocks == [dysl |-> 0, dy_global |-> 0, buckets |-> 0]

\* what there is of the collector and of the table before dGlobal_init has run
NoLinks == [n \in {} |-> NULL]
NoTable == [count |-> 0, capacity |-> 0, buckets |-> NoBuckets]

\* buckets_granted: whether the allocator grants the bucket array
dGlobal_init(buckets_granted) ==
    [links |-> dGC_init,
     symbols |-> dSymbols_init(DYSL_SYMBOLS_INITIAL_CAPACITY, buckets_granted),
     fault |-> dSymbols_init_fault(DYSL_SYMBOLS_INITIAL_CAPACITY, buckets_granted)]

\* D_granted, global_granted, buckets_granted: whether the allocator grants the
\* struct dysl, the struct dy_global and the bucket array; crashes: whether the
\* process dies of the undefined behaviour, if dSymbols_init executes any.
\* The result holds what dysl_new leaves: life is "absent" when it returns NULL
\* and "live" when it returns D.
dysl_new(D_granted, global_granted, buckets_granted, crashes) ==
    IF ~dAlloc_alloc(1, D_granted)
    THEN [life |-> "absent", heap |-> NoBlocks, fault |-> {},
          links |-> NoLinks, symbols |-> NoTable]
    ELSE IF ~dAlloc_alloc(1, global_granted)
    THEN [life |-> "absent", heap |-> [NoBlocks EXCEPT !.dysl = 1 - 1], fault |-> {},
          links |-> NoLinks, symbols |-> NoTable]
    ELSE LET g == dGlobal_init(buckets_granted)
         IN  [life |-> IF g.fault # {} /\ crashes THEN "crashed" ELSE "live",
              heap |-> [dysl |-> 1, dy_global |-> 1,
                        buckets |-> IF buckets_granted THEN 1 ELSE 0],
              fault |-> g.fault,
              links |-> g.links,
              symbols |-> g.symbols]

\* dAlloc_free(allocator, ptr), where *allocator lies in the block `holder` and
\* ptr is the block `block`: it reads allocator->fn and allocator->user_data out
\* of holder, and the call of fn releases block.  The read is undefined
\* behaviour when holder has been released.
dAlloc_free(H, holder, block) ==
    [heap |-> [H EXCEPT ![block] = @ - 1],
     fault |-> IF H[holder] = 0 THEN {"read of a released block"} ELSE {}]

\* allocator = &state->global->gc.allocator lies in the struct dy_global; the
\* first dAlloc_free releases the struct dy_global, the second the struct dysl.
\* reads_stale: a read of a released block still finds the allocator there;
\* otherwise the process dies at it.  The bucket array is not touched.
dysl_destroy(H, reads_stale) ==
    LET first == dAlloc_free(H, "dy_global", "dy_global")
        second == dAlloc_free(first.heap, "dy_global", "dysl")
        dies == second.fault # {} /\ ~reads_stale
    IN  [life |-> IF dies THEN "crashed" ELSE "destroyed",
         heap |-> IF dies THEN first.heap ELSE second.heap,
         fault |-> first.fault \cup second.fault]

\* the context a dysl_new leaves when the allocator grants its three requests
Constructed == dysl_new(TRUE, TRUE, TRUE, FALSE)

(***************************************************************************)
(* The symbol-table workload: the table as dGlobal_init makes it, then any *)
(* sequence of intern operations, dSymbols_resize and                      *)
(* dSymbols_ensure_capacity calls, each bucket-array allocation succeeding *)
(* or failing.                                                             *)
(***************************************************************************)
ResizeCapacities == {0, 3, 2 * DYSL_SYMBOLS_INITIAL_CAPACITY}

Did(name, capacity, alloc) ==
    [name |-> name, capacity |-> capacity, alloc |-> alloc]

\* no dSymbols_ensure_capacity call is running
Idle == [pc |-> "idle", new_capacity |-> 0, desired_count |-> 0, turn |-> 0]

Interned == {symbol[s].name : s \in 1 .. Len(symbol)}

Init ==
    /\ symbols = Constructed.symbols
    /\ symbol = <<>>
    /\ history = {}
    /\ refused = FALSE
    /\ links = Constructed.links
    /\ tag = <<>>
    /\ pinned = {}
    /\ heap = Constructed.heap
    /\ life = Constructed.life
    /\ fault = Constructed.fault
    /\ arena = <<>>
    /\ call = Idle
    /\ op = Did("dysl_new", 0, "granted")

Intern(name) ==
    /\ name \in Interned \/ Len(symbol) < MaxSymbols
    /\ \E granted \in BOOLEAN :
          LET r == InternSymbol(symbols, symbol, name, granted)
          IN  /\ symbols' = r.S
              /\ symbol' = r.M
              /\ history' = history \cup {<<name, r.sym>>}
              /\ refused' = (refused \/ r.alloc = "refused")
              /\ op' = Did("intern", symbols.capacity, r.alloc)
              /\ UNCHANGED <<gcvars, lifevars, arena, call>>

Resize(new_capacity) ==
    \E granted \in BOOLEAN :
       LET r == dSymbols_resize(symbols, symbol, new_capacity, granted)
       IN  /\ symbols' = r.S
           /\ symbol' = r.M
           /\ refused' = (refused \/ r.alloc = "refused")
           /\ op' = Did("resize", symbols.capacity, r.alloc)
           /\ UNCHANGED <<history, gcvars, lifevars, arena, call>>

EnsureCapacity(desired_count) ==
    \E granted \in BOOLEAN :
       LET r == dSymbols_ensure_capacity(symbols, symbol, desired_count, granted)
       IN  /\ symbols' = r.S
           /\ symbol' = r.M
           /\ refused' = (refused \/ r.alloc = "refused")
           /\ op' = Did("ensure_capacity", symbols.capacity, r.alloc)
           /\ UNCHANGED <<history, gcvars, lifevars, arena, call>>

Next ==
    \/ \E name \in Names : Intern(name)
    \/ \E c \in ResizeCapacities : Resize(c)
    \/ \E d \in 0 .. MaxDesired : EnsureCapacity(d)

Spec == Init /\ [][Next]_vars

(***************************************************************************)
(* The tracking workload: the collector as dGlobal_init makes it, then any *)
(* sequence of dGC_create (the allocator granting or refusing the block),  *)
(* dGC_root on an object that is not pinned and dGC_unroot on an object    *)
(* that is pinned.                                                         *)
(***************************************************************************)
\* the largest number of tracked objects
MaxObjects == 3

\* the tags handed to dGC_create
Tags == {1, 2}

Objects == DOMAIN tag

DidGC(name, obj, alloc) == [name |-> name, obj |-> obj, alloc |-> alloc]

\* a dGC_create: the returned pointer, what became of its request, the requested tag
DidCreate(obj, alloc, t) == [name |-> "create", obj |-> obj, alloc |-> alloc, tag |-> t]

Create(t) ==
    \E granted \in BOOLEAN :
       /\ granted => Cardinality(Objects) < MaxObjects
       /\ LET obj == IF dAlloc_alloc(1, granted) THEN Cardinality(Objects) + 1 ELSE NULL
              r == dGC_create(links, tag, obj, t)
          IN  /\ links' = r.links
              /\ tag' = r.tag
              /\ op' = DidCreate(r.obj, IF granted THEN "granted" ELSE "refused", t)
              /\ UNCHANGED <<pinned, symvars, lifevars, arena, call>>

Root(obj) ==
    /\ obj \notin pinned
    /\ links' = dGC_root(links, obj)
    /\ pinned' = pinned \cup {obj}
    /\ op' = DidGC("root", obj, "none")
    /\ UNCHANGED <<tag, symvars, lifevars, arena, call>>

Unroot(obj) ==
    /\ obj \in pinned
    /\ links' = dGC_unroot(links, obj)
    /\ pinned' = pinned \ {obj}
    /\ op' = DidGC("unroot", obj, "none")
    /\ UNCHANGED <<tag, symvars, lifevars, arena, call>>

NextGC ==
    \/ \E t \in Tags : Create(t)
    \/ \E obj \in Objects : Root(obj)
    \/ \E obj \in Objects : Unroot(obj)

SpecGC == Init /\ [][NextGC]_vars

(***************************************************************************)
(* The list workload: the collector as dGlobal_init makes it, then any     *)
(* sequence of dGC_create, dObj_unlink on an object that is in a list and  *)
(* dObj_link of an object that is in no list under one of the two          *)
(* sentinels.                                                              *)
(***************************************************************************)
\* previous == next == obj
Closed(L, obj) == L[obj].previous = obj /\ L[obj].next = obj

DidLink(obj, list) == [name |-> "link", obj |-> obj, alloc |-> "none", list |-> list]

Unlink(obj) ==
    /\ ~Closed(links, obj)
    /\ links' = dObj_unlink(links, obj)
    /\ op' = DidGC("unlink", obj, "none")
    /\ UNCHANGED <<tag, pinned, symvars, lifevars, arena, call>>

Link(obj, list) ==
    /\ Closed(links, obj)
    /\ links' = dObj_link(links, obj, list)
    /\ op' = DidLink(obj, list)
    /\ UNCHANGED <<tag, pinned, symvars, lifevars, arena, call>>

NextObj ==
    \/ \E t \in Tags : Create(t)
    \/ \E obj \in Objects : Unlink(obj)
    \/ \E obj \in Objects : \E list \in {ROOT, GEN} : Link(obj, list)

SpecObj == Init /\ [][NextObj]_vars

(***************************************************************************)
(* The failing-caller workload: interns as in the symbol-table workload,   *)
(* and interns of a new name whose caller is refused the block of the      *)
(* symbol object, so that it has no symbol to place in the returned slot.  *)
(***************************************************************************)
\* the largest number of counted symbols that were never placed
MaxUnplaced == 1

\* dSymbols_intern, then the caller's dGC_create returns NULL: the slot is left
\* as dSymbols_intern returned it
InternUnplacedSymbol(S, M, name, granted) ==
    LET r == dSymbols_intern(S, M, name, Len(name), dHash_fnv1a(name), granted)
        created == dGC_create(links, tag, NULL, 1)
    IN  [S |-> r.S, M |-> r.M, sym |-> created.obj, alloc |-> r.alloc]

InternUnplaced(name) ==
    /\ name \notin Interned
    /\ symbols.count - Len(symbol) < MaxUnplaced
    /\ \E granted \in BOOLEAN :
          LET r == InternUnplacedSymbol(symbols, symbol, name, granted)
          IN  /\ symbols' = r.S
              /\ symbol' = r.M
              /\ refused' = (refused \/ r.alloc = "refused")
              /\ op' = Did("intern_unplaced", symbols.capacity, r.alloc)
              /\ UNCHANGED <<history, gcvars, lifevars, arena, call>>

NextFail ==
    \/ \E name \in Names : Intern(name)
    \/ \E name \in Names : InternUnplaced(name)

SpecFail == Init /\ [][NextFail]_vars

(***************************************************************************)
(* The life of a context: dysl_new with the allocator granting or refusing *)
(* each of its three requests; on a context with its bucket array, interns *)
(* of two names, dSymbols_resize and dSymbols_ensure_capacity;             *)
(* dSymbols_destroy; dysl_destroy.  No tracked object is created.          *)
(***************************************************************************)
LifeNames == {Foo, Bar}

InitLife ==
    /\ symbols = NoTable
    /\ symbol = <<>>
    /\ history = {}
    /\ refused = FALSE
    /\ links = NoLinks
    /\ tag = <<>>
    /\ pinned = {}
    /\ heap = NoBlocks
    /\ life = "unborn"
    /\ fault = {}
    /\ arena = <<>>
    /\ call = Idle
    /\ op = Did("none", 0, "none")

DyslNew ==
    /\ life = "unborn"
    /\ \E D_granted, global_granted, buckets_granted, crashes \in BOOLEAN :
          LET r == dysl_new(D_granted, global_granted, buckets_granted, crashes)
          IN  /\ life' = r.life
              /\ heap' = r.heap
              /\ fault' = fault \cup r.fault
              /\ links' = r.links
              /\ symbols' = r.symbols
              /\ refused' = (refused \/ (D_granted /\ global_granted /\ ~buckets_granted))
              /\ op' = Did("dysl_new", 0,
                           IF D_granted /\ global_granted /\ buckets_granted
                           THEN "granted" ELSE "refused")
              /\ UNCHANGED <<symbol, history, tag, pinned, arena, call>>

SymbolsDestroy ==
    /\ life = "live"
    /\ symbols' = dSymbols_destroy(symbols)
    /\ heap' = [heap EXCEPT !.buckets = 0]
    /\ op' = Did("dSymbols_destroy", symbols.capacity, "none")
    /\ UNCHANGED <<symbol, history, refused, gcvars, life, fault, arena, call>>

DyslDestroy ==
    /\ life = "live"
    /\ \E reads_stale \in BOOLEAN :
          LET r == dysl_destroy(heap, reads_stale)
          IN  /\ life' = r.life
              /\ heap' = r.heap
              /\ fault' = fault \cup r.fault
              /\ op' = Did("dysl_destroy", symbols.capacity, "none")
              /\ UNCHANGED <<symvars, gcvars, arena, call>>

\* the table has its bucket array
TableReady == life = "live" /\ heap.buckets = 1

NextLife ==
    \/ DyslNew
    \/ SymbolsDestroy
    \/ DyslDestroy
    \/ TableReady /\ \E name \in LifeNames : Intern(name)
    \/ TableReady /\ \E c \in ResizeCapacities : Resize(c)
    \/ TableReady /\ \E d \in 0 .. MaxDesired : EnsureCapacity(d)

SpecLife == InitLife /\ [][NextLife]_vars

(***************************************************************************)
(* The capacity workload: a table as dSymbols_init makes it with one of    *)
(* several capacities, then interns of two names and                       *)
(* dSymbols_ensure_capacity calls, each bucket-array allocation succeeding *)
(* or failing.                                                             *)
(***************************************************************************)
\* the initial_capacity handed to dSymbols_init
InitialCapacities == {DYSL_SYMBOLS_INITIAL_CAPACITY, 65, 128, 130, 256, 300}

InitCapacity ==
    /\ \E c \in InitialCapacities : symbols = dSymbols_init(c, TRUE)
    /\ symbol = <<>>
    /\ history = {}
    /\ refused = FALSE
    /\ links = Constructed.links
    /\ tag = <<>>
    /\ pinned = {}
    /\ heap = Constructed.heap
    /\ life = Constructed.life
    /\ fault = Constructed.fault
    /\ arena = <<>>
    /\ call = Idle
    /\ op = Did("dSymbols_init", 0, "granted")

NextCapacity ==
    \/ \E name \in LifeNames : Intern(name)
    \/ \E d \in 0 .. MaxDesired : EnsureCapacity(d)

SpecCapacity == InitCapacity /\ [][NextCapacity]_vars

(***************************************************************************)
(* The lookup workload: interns of four names, two of them with the same   *)
(* hash, resizes to 3 and to 128 buckets, and dSymbols_lookup calls with   *)
(* any of the names, the whole name or its empty prefix, and the hash of   *)
(* any of the names.  A lookup writes *found and returns the slot: op      *)
(* holds both, with the arguments of the call.                             *)
(***************************************************************************)
LookupNames == {Empty, Foo, Gwzx, N16cd}

DidLookup(capacity, name, length, hash, r) ==
    [name |-> "lookup", capacity |-> capacity, alloc |-> "none",
     key |-> [name |-> name, length |-> length, hash |-> hash],
     slot |-> r.slot, found |-> r.found]

\* a variant that moves the symbol it has found to the head of its bucket
Lookup_MoveToFront(name, length, hash) ==
    LET r == dSymbols_lookup(symbols, symbol, name, length, hash)
        index == HashMod(hash, symbols.capacity)
        sym == Deref(symbols, symbol, r.slot)
        cut == StoreSlot(symbols, symbol, r.slot, symbol[sym].next_in_table)
    IN  /\ op' = DidLookup(symbols.capacity, name, length, hash, r)
        /\ IF r.found
           THEN /\ symbol' = [cut.M EXCEPT ![sym].next_in_table = cut.S.buckets[index]]
                /\ symbols' = [cut.S EXCEPT !.buckets[index] = sym]
           ELSE UNCHANGED <<symbols, symbol>>
        /\ UNCHANGED <<history, refused, gcvars, lifevars, arena, call>>

Lookup(name, length, hash) ==
    LET r == dSymbols_lookup(symbols, symbol, name, length, hash)
    IN  /\ op' = DidLookup(symbols.capacity, name, length, hash, r)
        /\ UNCHANGED <<symvars, gcvars, lifevars, arena, call>>

NextLookup ==
    \/ \E name \in LookupNames : Intern(name)
    \/ \E c \in ResizeCapacities \ {0} : Resize(c)
    \/ \E name, hashed \in LookupNames : \E length \in {0, Len(name)} :
          Lookup(name, length, dHash_fnv1a(hashed))

SpecLookup == Init /\ [][NextLookup]_vars

(***************************************************************************)
(* The call workload: the capacity workload and dSymbols_destroy, with     *)
(* dSymbols_ensure_capacity taken one step at a time: its entry up to the  *)
(* loop it chooses, each iteration of the doubling loop and of the halving *)
(* loop, and the dSymbols_resize it ends with.  A call that has begun      *)
(* keeps running: each of its steps is weakly fair.  No operation begins   *)
(* while a call runs; dSymbols_intern is given a table that has buckets.   *)
(***************************************************************************)
DesiredCounts == (0 .. MaxDesired) \cup {49, 100}

EnsureCapacityEnter(desired_count) ==
    LET capacity == symbols.capacity
        grow_threshold == GrowThreshold(capacity)
        shrink_threshold == capacity \div 4
    IN  /\ call.pc = "idle"
        /\ call' = IF desired_count > grow_threshold
                   THEN [pc |-> "grow", new_capacity |-> capacity,
                         desired_count |-> desired_count, turn |-> 0]
                   ELSE IF desired_count < shrink_threshold
                           /\ capacity > DYSL_SYMBOLS_INITIAL_CAPACITY
                   THEN [pc |-> "shrink",
                         new_capacity |-> dU_max(capacity \div 2,
                                                 DYSL_SYMBOLS_INITIAL_CAPACITY),
                         desired_count |-> desired_count, turn |-> 0]
                   ELSE [pc |-> "resize", new_capacity |-> capacity,
                         desired_count |-> desired_count, turn |-> 0]
        /\ op' = Did("ensure_capacity_enter", capacity, "none")
        /\ UNCHANGED <<symvars, gcvars, lifevars, arena>>

\* one test of the doubling loop's condition, and its body if the test passes
GrowTurn ==
    /\ call.pc = "grow"
    /\ call' = IF call.new_capacity * LOAD_NUM < call.desired_count * LOAD_DEN
               THEN [call EXCEPT !.new_capacity = @ * 2, !.turn = 1 - @]
               ELSE [call EXCEPT !.pc = "resize"]
    /\ UNCHANGED <<symvars, gcvars, lifevars, arena, op>>

\* one test of the halving loop's condition, and its body if the test passes
ShrinkTurn ==
    /\ call.pc = "shrink"
    /\ call' = IF /\ call.new_capacity > DYSL_SYMBOLS_INITIAL_CAPACITY
                  /\ call.desired_count < call.new_capacity \div 4
               THEN [call EXCEPT !.new_capacity = @ \div 2, !.turn = 1 - @]
               ELSE [call EXCEPT !.pc = "resize"]
    /\ UNCHANGED <<symvars, gcvars, lifevars, arena, op>>

EnsureCapacityResize ==
    /\ call.pc = "resize"
    /\ \E granted \in BOOLEAN :
          LET r == dSymbols_resize(symbols, symbol, call.new_capacity, granted)
          IN  /\ symbols' = r.S
              /\ symbol' = r.M
              /\ refused' = (refused \/ r.alloc = "refused")
              /\ op' = Did("ensure_capacity", symbols.capacity, r.alloc)
              /\ call' = Idle
              /\ UNCHANGED <<history, gcvars, lifevars, arena>>

NextCall ==
    \/ call.pc = "idle" /\ symbols.capacity > 0 /\ \E name \in LifeNames : Intern(name)
    \/ call.pc = "idle" /\ SymbolsDestroy
    \/ \E d \in DesiredCounts : EnsureCapacityEnter(d)
    \/ GrowTurn
    \/ ShrinkTurn
    \/ EnsureCapacityResize

SpecCall ==
    /\ InitCapacity
    /\ [][NextCall]_vars
    /\ WF_vars(GrowTurn)
    /\ WF_vars(ShrinkTurn)
    /\ WF_vars(EnsureCapacityResize)

(***************************************************************************)
(* The allocator workload: any sequence of calls of                        *)
(* dysl_stdlib_allocator_fn, with ptr NULL or an allocated block, any      *)
(* new_size, and the C library succeeding or failing.                      *)
(***************************************************************************)
\* the addresses of the C library's heap, and the largest new_size
MaxBlocks == 3
MaxSize == 2

Addresses == 1 .. MaxBlocks

DidAlloc(ptr, ns, ret) == [name |-> "allocator_fn", ptr |-> ptr, new_size |-> ns, ret |-> ret]

\* what the C library may return to a call with ptr and ns: NULL, an address
\* that is not allocated and, from realloc, the address of the block itself
Outcomes(A, ptr) == {NULL} \cup (Addresses \ DOMAIN A) \cup ({ptr} \cap DOMAIN A)

AllocatorFn(ptr, ns) ==
    \E out \in Outcomes(arena, ptr) :
       LET r == dysl_stdlib_allocator_fn(arena, ptr, ns, out)
       IN  /\ arena' = r.arena
           /\ op' = DidAlloc(ptr, ns, r.ret)
           /\ UNCHANGED <<symvars, gcvars, lifevars, call>>

NextAlloc == \E ptr \in {NULL} \cup DOMAIN arena : \E ns \in 0 .. MaxSize : AllocatorFn(ptr, ns)

SpecAlloc == Init /\ [][NextAlloc]_vars

(***************************************************************************)
(* Walking the table, for the statements below.                            *)
(***************************************************************************)
\* the buckets that hold a chain, and the least index of a set of them
Occupied(S) == {k \in 0 .. S.capacity - 1 : S.buckets[k] # NULL}

Least(T) == CHOOSE k \in T : \A m \in T : k <= m

\* the symbols met by following next_in_table from sym, at most fuel of them
RECURSIVE ChainFrom(_, _, _)
ChainFrom(M, sym, fuel) ==
    IF sym = NULL \/ fuel = 0 THEN <<>>
    ELSE <<sym>> \o ChainFrom(M, M[sym].next_in_table, fuel - 1)

\* the symbols met by walking the chains of the buckets in T, one after another
RECURSIVE WalkBuckets(_, _, _)
WalkBuckets(S, M, T) ==
    IF T = {} THEN <<>>
    ELSE LET k == Least(T)
         IN  ChainFrom(M, S.buckets[k], Len(M) + 1) \o WalkBuckets(S, M, T \ {k})

\* the symbols met by walking all bucket chains
Walk(S, M) == WalkBuckets(S, M, Occupied(S))

\* the names interned so far, and the symbols the interns of a name have returned
InternedSoFar == {p[1] : p \in history}
Returned(n) == {p[2] : p \in {q \in history : q[1] = n}}

(***************************************************************************)
(* C1.  Interning is idempotent and content-keyed: every intern of a name  *)
(* has returned one and the same symbol, that symbol holds the bytes of    *)
(* the name, and two names have been given the same symbol only if they    *)
(* are the same byte sequence, also when their hashes are equal.           *)
(***************************************************************************)
C1_InternIdentity ==
    /\ \A n \in InternedSoFar : Cardinality(Returned(n)) = 1
    /\ \A a, b \in InternedSoFar : Returned(a) \cap Returned(b) # {} => a = b
    /\ \A n \in InternedSoFar : \A s \in Returned(n) :
          /\ s \in 1 .. Len(symbol)
          /\ symbol[s].name = n
          /\ symbol[s].length = Len(n)
          /\ symbol[s].hash = dHash_fnv1a(n)

\* both names of the colliding pair and the empty name have been interned
C1_Witness ==
    /\ op.name = "intern"
    /\ dHash_fnv1a(Gwzx) = dHash_fnv1a(N16cd)
    /\ {Gwzx, N16cd, Empty} \subseteq InternedSoFar

(***************************************************************************)
(* C2.  The table's count equals the number of symbols met by walking all  *)
(* bucket chains, which equals the number of distinct byte sequences       *)
(* interned so far.                                                        *)
(***************************************************************************)
C2_CountIsReachable ==
    /\ symbols.count = Len(Walk(symbols, symbol))
    /\ symbols.count = Cardinality(InternedSoFar)

\* "foo", "bar", "foo" on a table of capacity 64: count 2
C2_Witness ==
    /\ op.name = "intern"
    /\ symbols.capacity = DYSL_SYMBOLS_INITIAL_CAPACITY
    /\ InternedSoFar = {Foo, Bar}
    /\ Returned(Foo) = {1}
    /\ Returned(Bar) = {2}
    /\ symbols.count = 2

(***************************************************************************)
(* C3.  Every step keeps every symbol: a symbol interned before the step   *)
(* is found after it by dSymbols_lookup with the same name, length and     *)
(* hash, in a slot holding the same symbol object, whose name, length and  *)
(* hash are unchanged; the walk of all chains meets every symbol exactly   *)
(* once; and a dSymbols_resize or dSymbols_ensure_capacity step leaves     *)
(* count and the set of symbols unchanged.                                 *)
(***************************************************************************)
Payload(sym) == [name |-> sym.name, length |-> sym.length, hash |-> sym.hash]

FoundAt(S, M, s) ==
    LET r == dSymbols_lookup(S, M, M[s].name, M[s].length, M[s].hash)
    IN  r.found /\ Deref(S, M, r.slot) = s

KeepsSymbols ==
    /\ \A s \in 1 .. Len(symbol) :
          /\ s \in 1 .. Len(symbol')
          /\ Payload(symbol'[s]) = Payload(symbol[s])
          /\ FoundAt(symbols', symbol', s)
    /\ LET walk == Walk(symbols', symbol')
       IN  /\ Len(walk) = Len(symbol')
           /\ {walk[i] : i \in 1 .. Len(walk)} = 1 .. Len(symbol')
    /\ op'.name \in {"resize", "ensure_capacity"} =>
          /\ symbols'.count = symbols.count
          /\ Len(symbol') = Len(symbol)

C3_ResizeKeepsSymbols == [][KeepsSymbols]_vars

\* dSymbols_ensure_capacity has shrunk a table of 128 buckets that held
\* symbols to 64 buckets
C3_Witness ==
    /\ op.name = "ensure_capacity"
    /\ op.alloc = "granted"
    /\ op.capacity = 2 * DYSL_SYMBOLS_INITIAL_CAPACITY
    /\ symbols.capacity = DYSL_SYMBOLS_INITIAL_CAPACITY
    /\ Len(symbol) >= 2

(***************************************************************************)
(* The growth workload: the table as dGlobal_init makes it (capacity 64),  *)
(* then intern operations only, each request for a bucket array granted or *)
(* refused.  The names are the 4-byte sequences "s000", "s001", ...,       *)
(* interned in this order, and any interned name may be interned again.    *)
(***************************************************************************)
\* the largest number of distinct symbols interned in the growth workload
MaxGrowSymbols == 60

\* "s" followed by the three decimal digits of k
GrowName(k) == <<115, 48 + (k \div 100), 48 + ((k \div 10) % 10), 48 + (k % 10)>>

InternGrow(k) ==
    /\ k < MaxGrowSymbols
    /\ \E granted \in BOOLEAN :
          LET r == InternSymbol(symbols, symbol, GrowName(k), granted)
          IN  /\ symbols' = r.S
              /\ symbol' = r.M
              /\ history' = history \cup {<<GrowName(k), r.sym>>}
              /\ refused' = (refused \/ r.alloc = "refused")
              /\ op' = Did("intern", symbols.capacity, r.alloc)
              /\ UNCHANGED <<gcvars, lifevars, arena, call>>

NextGrow == \E k \in 0 .. Len(symbol) : InternGrow(k)

SpecGrow == Init /\ [][NextGrow]_vars

(***************************************************************************)
(* C4.  From capacity 64, as long as no request for a bucket array has     *)
(* been refused, after every intern count <= floor(capacity * 0.75); the   *)
(* capacity is still 64 with up to 48 distinct symbols and at least 128    *)
(* from the 49th on.                                                       *)
(***************************************************************************)
C4_LoadFactorKept ==
    ~refused =>
        /\ symbols.count <= (symbols.capacity * 3) \div 4
        /\ symbols.count = Cardinality(InternedSoFar)
        /\ symbols.count <= 48 => symbols.capacity = 64
        /\ symbols.count >= 49 => symbols.capacity >= 128

\* the intern of the 49th distinct symbol has doubled the table
C4_Witness ==
    /\ ~refused
    /\ op = Did("intern", 64, "granted")
    /\ symbols.count = 49
    /\ Cardinality(InternedSoFar) = 49
    /\ symbols.capacity = 128

(***************************************************************************)
(* Traversing a tracking list, for the statements below: the nodes met by  *)
(* following next from the sentinel until the sentinel is met again.  A    *)
(* traversal that meets another node twice never comes back to the         *)
(* sentinel; it is cut there and reported as not ending.                   *)
(***************************************************************************)
RECURSIVE TraverseFrom(_, _, _, _)
TraverseFrom(L, head, node, seen) ==
    IF node = head THEN [nodes |-> <<>>, ends |-> TRUE]
    ELSE IF node \in seen THEN [nodes |-> <<>>, ends |-> FALSE]
    ELSE LET rest == TraverseFrom(L, head, L[node].next, seen \cup {node})
         IN  [nodes |-> <<node>> \o rest.nodes, ends |-> rest.ends]

Traverse(L, head) == TraverseFrom(L, head, L[head].next, {})

\* the tracked objects a traversal enumerates
Enumerated(L, head) ==
    LET t == Traverse(L, head).nodes
    IN  {t[i] : i \in 1 .. Len(t)} \cap Objects

\* how many times the traversals of the two lists, taken together, meet obj
TimesMet(L, obj) ==
    LET t == Traverse(L, ROOT).nodes \o Traverse(L, GEN).nodes
    IN  Cardinality({i \in 1 .. Len(t) : t[i] = obj})

(***************************************************************************)
(* C5.  No tracked object is enumerated both by the traversal of the root  *)
(* list and by the traversal of the generation list, and an object pinned  *)
(* with dGC_root is not enumerated by the traversal of the generation      *)
(* list.                                                                   *)
(***************************************************************************)
C5_AtMostOneList ==
    /\ Enumerated(links, ROOT) \cap Enumerated(links, GEN) = {}
    /\ pinned \cap Enumerated(links, GEN) = {}

(***************************************************************************)
(* C6.  Every tracked object is enumerated exactly once by the traversals  *)
(* of the generation list and of the root list, and both traversals end.   *)
(***************************************************************************)
C6_EveryObjectEnumeratedOnce ==
    /\ Traverse(links, ROOT).ends
    /\ Traverse(links, GEN).ends
    /\ \A obj \in Objects : TimesMet(links, obj) = 1

(***************************************************************************)
(* C7.  Once every object pinned with dGC_root has been unpinned with      *)
(* dGC_unroot, the generation set and the root set have the members they   *)
(* had before the round trips: every tracked object is in the generation   *)
(* set and the root set is empty.                                          *)
(***************************************************************************)
C7_RoundTripRestoresSets ==
    pinned = {} =>
        /\ Traverse(links, GEN).ends
        /\ Traverse(links, ROOT).ends
        /\ Enumerated(links, GEN) = Objects
        /\ Enumerated(links, ROOT) = {}

(***************************************************************************)
(* C8.  A dGC_create whose block the allocator refuses returns NULL and    *)
(* leaves the links of the two sentinels and of every tracked object, and  *)
(* the tags, as they were.                                                 *)
(***************************************************************************)
CreateRefused == op'.name = "create" /\ op'.alloc = "refused"

C8_RefusedCreateChangesNothing ==
    [][CreateRefused => (op'.obj = NULL /\ links' = links /\ tag' = tag)]_vars

\* a refused dGC_create on a collector that tracks objects, one of them pinned
C8_Witness ==
    /\ op.name = "create"
    /\ op.alloc = "refused"
    /\ Cardinality(Objects) >= 2
    /\ pinned # {}

(***************************************************************************)
(* C9.  A dysl_new during which the allocator refuses a request returns    *)
(* NULL, holds none of the blocks it obtained when it returns, and has not *)
(* dereferenced a NULL allocation result.                                  *)
(***************************************************************************)
C9_FailedNewReleasesAll ==
    (op.name = "dysl_new" /\ op.alloc = "refused") =>
        /\ life = "absent"
        /\ heap = NoBlocks
        /\ fault = {}

(***************************************************************************)
(* C10.  After a dysl_new whose three requests were granted and a          *)
(* dysl_destroy that returned, with no dSymbols_destroy in between, none   *)
(* of the bucket array, the struct dy_global and the struct dysl is still  *)
(* held: each has been released, and no more than once.                    *)
(***************************************************************************)
C10_DestroyReleasesAll ==
    (life = "destroyed" /\ "store through NULL" \notin fault) =>
        /\ heap.dysl = 0
        /\ heap.dy_global = 0
        /\ heap.buckets = 0

(***************************************************************************)
(* C11.  A dSymbols_resize or dSymbols_ensure_capacity whose new bucket    *)
(* array is refused leaves the table, every symbol and the blocks held as  *)
(* they were.  An intern whose growth is refused keeps the capacity,       *)
(* counts the new symbol, has returned the empty slot at the end of the    *)
(* name's chain in the old table, where the new symbol now is, and leaves  *)
(* every symbol, the new one included, found by dSymbols_lookup.           *)
(***************************************************************************)
RefusedResizeKeeps ==
    (op'.name \in {"resize", "ensure_capacity"} /\ op'.alloc = "refused") =>
        /\ symbols' = symbols
        /\ symbol' = symbol
        /\ heap' = heap

RefusedGrowthKeeps ==
    (op'.name = "intern" /\ op'.alloc = "refused") =>
        /\ Len(symbol') = Len(symbol) + 1
        /\ LET new == Len(symbol')
               first == dSymbols_lookup(symbols, symbol, symbol'[new].name,
                                        symbol'[new].length, symbol'[new].hash)
           IN  /\ ~first.found
               /\ Deref(symbols, symbol, first.slot) = NULL
               /\ Deref(symbols', symbol', first.slot) = new
               /\ symbol'[new].next_in_table = NULL
        /\ symbols'.capacity = symbols.capacity
        /\ symbols'.count = symbols.count + 1
        /\ heap' = heap
        /\ \A s \in 1 .. Len(symbol') : FoundAt(symbols', symbol', s)

C11_FailSoftResize == [][RefusedResizeKeeps /\ RefusedGrowthKeeps]_vars

\* the intern of a third symbol into a table of 3 buckets, its growth refused
C11_Witness ==
    /\ op.name = "intern"
    /\ op.alloc = "refused"
    /\ op.capacity = 3
    /\ symbols.capacity = 3
    /\ symbols.count = 3
    /\ Len(symbol) = 3

(***************************************************************************)
(* C12.  Every call of dysl_stdlib_allocator_fn follows the four cases:    *)
(* without a block and with a size it allocates a block that was not       *)
(* allocated, of that size, or returns NULL and changes nothing; with a    *)
(* block and size 0 it releases the block and returns NULL; with a block   *)
(* and a size it resizes the block, or returns NULL and changes nothing;   *)
(* without a block and with size 0 it returns NULL and changes nothing.    *)
(***************************************************************************)
FourCases ==
    LET ptr == op'.ptr
        ns == op'.new_size
        ret == op'.ret
    IN  /\ (ptr = NULL /\ ns > 0) =>
              IF ret = NULL THEN arena' = arena
              ELSE /\ ret \notin DOMAIN arena
                   /\ arena' = ret :> ns @@ arena
        /\ (ptr # NULL /\ ns = 0) =>
              /\ ret = NULL
              /\ ptr \in DOMAIN arena
              /\ arena' = Without(arena, ptr)
        /\ (ptr # NULL /\ ns > 0) =>
              IF ret = NULL THEN arena' = arena
              ELSE /\ DOMAIN arena' = (DOMAIN arena \ {ptr}) \cup {ret}
                   /\ arena'[ret] = ns
                   /\ \A q \in DOMAIN arena \ {ptr} : arena'[q] = arena[q]
        /\ (ptr = NULL /\ ns = 0) =>
              /\ ret = NULL
              /\ arena' = arena

C12_AllocatorFourCases == [][op'.name = "allocator_fn" => FourCases]_vars

\* a call without a block and with size 0, while blocks are allocated and
\* addresses are left
C12_Witness ==
    /\ op.name = "allocator_fn"
    /\ op.ptr = NULL
    /\ op.new_size = 0
    /\ DOMAIN arena # {}
    /\ DOMAIN arena # Addresses

(***************************************************************************)
(* C13.  For every object in no list (previous == next == obj) and each of *)
(* the two lists, dObj_link(obj, head) followed by dObj_unlink(obj) leaves *)
(* obj closed and every link of every node as it was before the link, and  *)
(* every node n has n.next.previous == n and n.previous.next == n, after   *)
(* the link and after the unlink.                                          *)
(***************************************************************************)
WellFormed(L) ==
    \A n \in DOMAIN L : L[L[n].next].previous = n /\ L[L[n].previous].next = n

C13_LinkUnlinkRoundTrip ==
    \A obj \in Objects : \A list \in {ROOT, GEN} :
       Closed(links, obj) =>
          LET linked == dObj_link(links, obj, list)
              back == dObj_unlink(linked, obj)
          IN  /\ linked[list].next = obj
              /\ WellFormed(linked)
              /\ Closed(back, obj)
              /\ back = links
              /\ WellFormed(back)

\* an object has just been unlinked from a list that had two more members
C13_Witness ==
    /\ op.name = "unlink"
    /\ Closed(links, op.obj)
    /\ \E list \in {ROOT, GEN} : Len(Traverse(links, list).nodes) = 2

(***************************************************************************)
(* C14.  For every object of the generation list, dObj_unlink(obj)         *)
(* followed by dObj_link(obj, root sentinel) makes the traversal of the    *)
(* root list meet obj once, before the members it met before, and makes    *)
(* the traversal of the generation list meet its former members without    *)
(* obj, in the same order.                                                 *)
(***************************************************************************)
RECURSIVE SeqWithout(_, _)
SeqWithout(seq, x) ==
    IF seq = <<>> THEN <<>>
    ELSE IF Head(seq) = x THEN SeqWithout(Tail(seq), x)
    ELSE <<Head(seq)>> \o SeqWithout(Tail(seq), x)

C14_UnlinkThenLinkMoves ==
    \A obj \in Enumerated(links, GEN) :
       LET moved == dObj_link(dObj_unlink(links, obj), obj, ROOT)
       IN  /\ Traverse(moved, ROOT).ends
           /\ Traverse(moved, GEN).ends
           /\ Traverse(moved, ROOT).nodes = <<obj>> \o Traverse(links, ROOT).nodes
           /\ Traverse(moved, GEN).nodes = SeqWithout(Traverse(links, GEN).nodes, obj)

\* an object created into the generation list has been unlinked and linked
\* under the root sentinel, where another object already was
C14_Witness ==
    /\ op.name = "link"
    /\ op.list = ROOT
    /\ Len(Traverse(links, ROOT).nodes) = 2
    /\ Traverse(links, ROOT).nodes[1] = op.obj
    /\ Enumerated(links, GEN) # {}

(***************************************************************************)
(* C15.  An intern whose caller is refused the block of the symbol object  *)
(* leaves the table as it was before the intern: count is what it was and  *)
(* is the number of symbols met by walking all bucket chains.              *)
(***************************************************************************)
C15_UnplacedInternLeavesTable ==
    [][op'.name = "intern_unplaced" =>
          /\ symbols'.count = symbols.count
          /\ symbols'.count = Len(Walk(symbols', symbol'))]_vars

(***************************************************************************)
(* C16.  A dGC_create whose block is granted returns an object that was    *)
(* not tracked, whose tag is the requested tag, linked right after the     *)
(* generation sentinel: gen.next == obj, obj.previous == gen, obj.next ==  *)
(* the former gen.next, whose previous is now obj.  No other link and no   *)
(* other tag changes; the traversal of the root list meets what it met,    *)
(* and the traversal of the generation list meets obj, then what it met,   *)
(* in the same order.                                                      *)
(***************************************************************************)
CreateLinksFirst ==
    LET obj == op'.obj
        first == links[GEN].next
    IN  /\ obj # NULL
        /\ obj \notin Objects
        /\ tag' = obj :> op'.tag @@ tag
        /\ links'[GEN].next = obj
        /\ links'[obj] = [previous |-> GEN, next |-> first]
        /\ links'[first].previous = obj
        /\ \A n \in DOMAIN links :
              /\ n # GEN => links'[n].next = links[n].next
              /\ n # first => links'[n].previous = links[n].previous
        /\ Traverse(links', ROOT) = Traverse(links, ROOT)
        /\ Traverse(links', GEN).ends = Traverse(links, GEN).ends
        /\ Traverse(links', GEN).nodes = <<obj>> \o Traverse(links, GEN).nodes

C16_CreateLinksAfterGen ==
    [][(op'.name = "create" /\ op'.alloc = "granted") => CreateLinksFirst]_vars

\* a granted dGC_create with tag 2 on a collector whose two lists have a member
C16_Witness ==
    /\ op.name = "create"
    /\ op.alloc = "granted"
    /\ op.tag = 2
    /\ Len(Traverse(links, GEN).nodes) = 2
    /\ Traverse(links, GEN).ends
    /\ Len(Traverse(links, ROOT).nodes) = 1

(***************************************************************************)
(* C17.  Every node n among the two sentinels and the created objects has  *)
(* n.next.previous == n and n.previous.next == n, and an object that       *)
(* neither traversal meets has previous == next == itself.                 *)
(***************************************************************************)
C17_TrackerWellFormed ==
    /\ WellFormed(links)
    /\ \A obj \in Objects \ (Enumerated(links, ROOT) \cup Enumerated(links, GEN)) :
          Closed(links, obj)

(***************************************************************************)
(* C18.  Every symbol is in the chain of the bucket (its hash mod the      *)
(* capacity); the walk of all chains meets every symbol exactly once;      *)
(* every chain ends with NULL after at most as many symbols as there are;  *)
(* and after an intern that has grown the table the new symbol is the      *)
(* last of the chain of the bucket computed with the new capacity.         *)
(***************************************************************************)
Chain(S, M, index) == ChainFrom(M, S.buckets[index], Len(M) + 1)

InChain(S, M, s) ==
    LET chain == Chain(S, M, HashMod(M[s].hash, S.capacity))
    IN  \E i \in 1 .. Len(chain) : chain[i] = s

C18_BucketPlacement ==
    /\ \A s \in 1 .. Len(symbol) : InChain(symbols, symbol, s)
    /\ LET walk == Walk(symbols, symbol)
       IN  /\ Len(walk) = Len(symbol)
           /\ \A s \in 1 .. Len(symbol) : Cardinality({i \in 1 .. Len(walk) : walk[i] = s}) = 1
    /\ \A k \in 0 .. symbols.capacity - 1 : Len(Chain(symbols, symbol, k)) <= Len(symbol)
    /\ (op.name = "intern" /\ op.alloc = "granted") =>
          LET new == Len(symbol)
              chain == Chain(symbols, symbol, HashMod(symbol[new].hash, symbols.capacity))
          IN  /\ symbols.capacity > op.capacity
              /\ chain # <<>>
              /\ chain[Len(chain)] = new
              /\ symbol[new].next_in_table = NULL

\* the intern of a third symbol has grown a table of 3 buckets to 6, where a
\* chain holds more than one symbol
C18_Witness ==
    /\ op.name = "intern"
    /\ op.alloc = "granted"
    /\ op.capacity = 3
    /\ symbols.capacity = 6
    /\ Len(symbol) = 3
    /\ \E k \in 0 .. symbols.capacity - 1 : Len(Chain(symbols, symbol, k)) >= 2

(***************************************************************************)
(* C19.  Every dSymbols_ensure_capacity step that makes the capacity       *)
(* smaller leaves it at DYSL_SYMBOLS_INITIAL_CAPACITY or more, and is the  *)
(* step of a desired_count below a quarter of the capacity it started      *)
(* from.                                                                   *)
(***************************************************************************)
C19_ShrinkBoundedBelow ==
    [][(op'.name = "ensure_capacity" /\ symbols'.capacity < symbols.capacity) =>
          /\ symbols'.capacity >= DYSL_SYMBOLS_INITIAL_CAPACITY
          /\ \E d \in 0 .. MaxDesired :
                /\ d < symbols.capacity \div 4
                /\ symbols'.capacity = NewCapacity(symbols.capacity, d)]_vars

(***************************************************************************)
(* C20.  Every dSymbols_ensure_capacity call returns: a call that is       *)
(* running, on a table as dSymbols_init or dSymbols_destroy leaves it and  *)
(* with any desired_count, leads to no call running.                       *)
(***************************************************************************)
C20_EnsureCapacityReturns == (call.pc # "idle") ~> (call.pc = "idle")

(***************************************************************************)
(* C21.  A dSymbols_lookup step changes nothing but its own result: the    *)
(* buckets, capacity, count, every symbol and every next_in_table link,    *)
(* and all the rest of the state, are as before.  When the chain of bucket *)
(* hash mod capacity holds a symbol with the hash, the length and the      *)
(* bytes asked for, found is 1 and the slot holds such a symbol; otherwise *)
(* found is 0 and the slot is the empty one that ends that chain.          *)
(***************************************************************************)
\* the symbol has the hash, the length and the bytes of the key
SameKey(sym, key) ==
    /\ sym.hash = key.hash
    /\ sym.length = key.length
    /\ SubSeq(sym.name, 1, key.length) = SubSeq(key.name, 1, key.length)

\* the slot that ends the chain of the bucket
TerminalSlot(S, M, index) ==
    LET chain == Chain(S, M, index)
    IN  IF chain = <<>> THEN BucketSlot(index) ELSE NextSlot(chain[Len(chain)])

LookupIsPureQuery ==
    op'.name = "lookup" =>
       LET key == op'.key
           index == HashMod(key.hash, symbols.capacity)
           chain == Chain(symbols, symbol, index)
           matching == {chain[i] : i \in {j \in 1 .. Len(chain) : SameKey(symbol[chain[j]], key)}}
       IN  /\ UNCHANGED <<symvars, gcvars, lifevars, arena, call>>
           /\ IF matching # {}
              THEN /\ op'.found
                   /\ Deref(symbols', symbol', op'.slot) \in matching
              ELSE /\ ~op'.found
                   /\ Deref(symbols', symbol', op'.slot) = NULL
                   /\ op'.slot = TerminalSlot(symbols', symbol', index)

C22_DestroyReadsNoReleasedBlock ==
    (op.name = "dysl_destroy" /\ "store through NULL" \notin fault) =>
        "read of a released block" \notin fault

=============================================================================
